---- MODULE Spec2Model ----
(***************************************************************************)
(* Model of the JSON recovery engine of json_viewer:                       *)
(*   src/lib/json-utils.ts      extractJson, findJsonFragments,            *)
(*                              safeStringify                              *)
(*   src/components/json-viewer.tsx   processJson                          *)
(*                                                                         *)
(* A text is a sequence of one-character strings.  JSON.parse, the two     *)
(* regular expressions of extractJson, String.prototype.trim / split and   *)
(* JSON.stringify are modelled by what they compute on such sequences.     *)
(***************************************************************************)
EXTENDS Integers, Sequences, FiniteSets, TLC

(***************************************************************************)
(* Characters                                                              *)
(***************************************************************************)
QUOTE == "\""
BACKSLASH == "\\"
NL == "\n"
TAB == "\t"
CR == "\r"
SPACE == " "

\* JSON whitespace (ECMA-404): space, LF, CR, TAB.
JsonWs == {SPACE, NL, CR, TAB}

\* String.prototype.trim strips these (of the characters the model uses).
TrimWs == {SPACE, NL, CR, TAB}

\* Characters with char code < 32 (of the characters the model uses).
ControlChars == {NL, CR, TAB}

Digits == {"0", "1", "2", "3", "4", "5", "6", "7", "8", "9"}

HexDigits == Digits \cup {"a", "b", "c", "d", "e", "f", "A", "B", "C", "D", "E", "F"}

DigitVal(c) ==
  CASE c = "0" -> 0 [] c = "1" -> 1 [] c = "2" -> 2 [] c = "3" -> 3
    [] c = "4" -> 4 [] c = "5" -> 5 [] c = "6" -> 6 [] c = "7" -> 7
    [] c = "8" -> 8 [] c = "9" -> 9

\* s[i], or "" past the end (the way JS yields undefined / "" there).
At(s, i) == IF i >= 1 /\ i <= Len(s) THEN s[i] ELSE ""

(***************************************************************************)
(* JsonValue.  JS null doubles as "none".                                  *)
(***************************************************************************)
Null == [t |-> "null"]
Bool(b) == [t |-> "bool", b |-> b]
Num(m, e) == [t |-> "num", m |-> m, e |-> e]
Str(s) == [t |-> "str", s |-> s]
Arr(a) == [t |-> "arr", a |-> a]
Obj(o) == [t |-> "obj", o |-> o]
EmptyObj == Obj([k \in {} |-> Null])

\* An own property is set: the last write wins.
ObjSet(o, key, v) == [k \in (DOMAIN o) \cup {key} |-> IF k = key THEN v ELSE o[k]]

\* JS truthiness of a value (if (extracted), if (result)).
Truthy(v) ==
  CASE v.t = "null" -> FALSE
    [] v.t = "bool" -> v.b
    [] v.t = "num" -> v.m # 0
    [] v.t = "str" -> v.s # <<>>
    [] OTHER -> TRUE

(***************************************************************************)
(* JSON.parse                                                              *)
(***************************************************************************)
Fail(i) == [ok |-> FALSE, v |-> Null, i |-> i]
Ok(v, i) == [ok |-> TRUE, v |-> v, i |-> i]

RECURSIVE SkipWs(_, _)
SkipWs(s, i) == IF At(s, i) \in JsonWs THEN SkipWs(s, i + 1) ELSE i

\* Whether the characters of lit stand at s[i..].
Looking(s, i, lit) ==
  /\ i + Len(lit) - 1 <= Len(s)
  /\ \A k \in 1..Len(lit) : s[i + k - 1] = lit[k]

\* The end (exclusive) of the run of digits starting at i.
RECURSIVE DigitsEnd(_, _)
DigitsEnd(s, i) == IF At(s, i) \in Digits THEN DigitsEnd(s, i + 1) ELSE i

\* The number written by the digits s[i..j-1], continuing acc.
RECURSIVE DigitsVal(_, _, _, _)
DigitsVal(s, i, j, acc) ==
  IF i >= j THEN acc ELSE DigitsVal(s, i + 1, j, acc * 10 + DigitVal(s[i]))

\* m * 10^e with m free of trailing zeros, so that equal numbers are equal
\* values; with it, the position after the number.
RECURSIVE Normalize(_, _)
Normalize(m, e) ==
  IF m = 0 THEN Num(0, 0)
  ELSE IF m % 10 = 0 THEN Normalize(m \div 10, e + 1)
  ELSE Num(m, e)

\* number: -? (0 | [1-9][0-9]*) (. [0-9]+)? ([eE] [+-]? [0-9]+)?
\* i0..i1-1 are the integer digits, i1+1..f1-1 the fraction digits (f1 = i1
\* without a fraction), exp the exponent and j the end of the number.
MakeNumber(s, i, i0, i1, f1, exp, j) ==
  Ok(Normalize((IF At(s, i) = "-" THEN 0 - 1 ELSE 1)
                 * DigitsVal(s, i1 + 1, f1, DigitsVal(s, i0, i1, 0)),
               exp - (IF f1 > i1 THEN f1 - i1 - 1 ELSE 0)),
     j)

NumberExponent(s, i, i0, i1, f1, e0, e1) ==
  IF e1 > e0
    THEN MakeNumber(s, i, i0, i1, f1,
                    (IF At(s, e0 - 1) = "-" THEN 0 - 1 ELSE 1) * DigitsVal(s, e0, e1, 0),
                    e1)
    ELSE Fail(i)

NumberAfterFraction(s, i, i0, i1, f1, e0) ==
  IF At(s, f1) \in {"e", "E"}
    THEN NumberExponent(s, i, i0, i1, f1, e0, DigitsEnd(s, e0))
    ELSE MakeNumber(s, i, i0, i1, f1, 0, f1)

NumberFraction(s, i, i0, i1, f1) ==
  IF At(s, i1) = "." /\ f1 = i1 + 1 THEN Fail(i)
  ELSE NumberAfterFraction(s, i, i0, i1, f1,
                           IF At(s, f1 + 1) \in {"+", "-"} THEN f1 + 2 ELSE f1 + 1)

NumberInteger(s, i, i0, i1) ==
  IF i1 > i0 /\ (At(s, i0) = "0" => i1 = i0 + 1)
    THEN NumberFraction(s, i, i0, i1,
                        IF At(s, i1) = "." THEN DigitsEnd(s, i1 + 1) ELSE i1)
    ELSE Fail(i)

NumberDigits(s, i, i0) == NumberInteger(s, i, i0, DigitsEnd(s, i0))

ParseNumber(s, i) == NumberDigits(s, i, IF At(s, i) = "-" THEN i + 1 ELSE i)

\* The decoded character of the escape \c (c one of " \ / b f n r t).
Unescape(c) ==
  CASE c = "n" -> NL [] c = "t" -> TAB [] c = "r" -> CR
    [] c = "b" -> "<BS>" [] c = "f" -> "<FF>"
    [] OTHER -> c

\* string: i stands after the opening quote; acc is the decoded text so far.
RECURSIVE ParseStringBody(_, _, _)
ParseStringBody(s, i, acc) ==
  LET c == At(s, i) IN
  IF i > Len(s) THEN Fail(i)
  ELSE IF c = QUOTE THEN Ok(Str(acc), i + 1)
  ELSE IF c \in ControlChars THEN Fail(i)
  ELSE IF c = BACKSLASH THEN
    LET d == At(s, i + 1) IN
    IF d \in {QUOTE, BACKSLASH, "/", "b", "f", "n", "r", "t"}
      THEN ParseStringBody(s, i + 2, Append(acc, Unescape(d)))
    ELSE IF d = "u" /\ \A k \in 2..5 : At(s, i + k) \in HexDigits
      THEN ParseStringBody(s, i + 6,
             Append(acc, "\\u" \o s[i + 2] \o s[i + 3] \o s[i + 4] \o s[i + 5]))
    ELSE Fail(i)
  ELSE ParseStringBody(s, i + 1, Append(acc, c))

RECURSIVE ParseValue(_, _)
RECURSIVE ParseElements(_, _, _)
RECURSIVE ParseMembers(_, _, _)

\* value: i stands at its first character.
ParseValue(s, i) ==
  LET c == At(s, i) IN
  CASE c = "{" ->
         LET j == SkipWs(s, i + 1) IN
         IF At(s, j) = "}" THEN Ok(EmptyObj, j + 1)
         ELSE ParseMembers(s, j, EmptyObj.o)
    [] c = "[" ->
         LET j == SkipWs(s, i + 1) IN
         IF At(s, j) = "]" THEN Ok(Arr(<<>>), j + 1)
         ELSE ParseElements(s, j, <<>>)
    [] c = QUOTE -> ParseStringBody(s, i + 1, <<>>)
    [] c = "-" \/ c \in Digits -> ParseNumber(s, i)
    [] c = "n" -> IF Looking(s, i, <<"n", "u", "l", "l">>) THEN Ok(Null, i + 4) ELSE Fail(i)
    [] c = "t" -> IF Looking(s, i, <<"t", "r", "u", "e">>) THEN Ok(Bool(TRUE), i + 4) ELSE Fail(i)
    [] c = "f" -> IF Looking(s, i, <<"f", "a", "l", "s", "e">>) THEN Ok(Bool(FALSE), i + 5) ELSE Fail(i)
    [] OTHER -> Fail(i)

\* elements: value (ws , ws value)* ws ]
ElementNext(s, acc, j) ==
  IF At(s, j) = "," THEN ParseElements(s, SkipWs(s, j + 1), acc)
  ELSE IF At(s, j) = "]" THEN Ok(Arr(acc), j + 1)
  ELSE Fail(j)

ElementValue(s, acc, r) ==
  IF ~r.ok THEN r ELSE ElementNext(s, Append(acc, r.v), SkipWs(s, r.i))

ParseElements(s, i, acc) == ElementValue(s, acc, ParseValue(s, i))

\* members: string ws : ws value (ws , ws string ws : ws value)* ws }
MemberNext(s, o, j) ==
  IF At(s, j) = "," THEN ParseMembers(s, SkipWs(s, j + 1), o)
  ELSE IF At(s, j) = "}" THEN Ok(Obj(o), j + 1)
  ELSE Fail(j)

MemberValue(s, acc, key, r) ==
  IF ~r.ok THEN r ELSE MemberNext(s, ObjSet(acc, key, r.v), SkipWs(s, r.i))

MemberColon(s, acc, key, c) ==
  IF At(s, c) # ":" THEN Fail(c)
  ELSE MemberValue(s, acc, key, ParseValue(s, SkipWs(s, c + 1)))

MemberKey(s, acc, k) ==
  IF ~k.ok THEN k ELSE MemberColon(s, acc, k.v.s, SkipWs(s, k.i))

ParseMembers(s, i, acc) ==
  IF At(s, i) # QUOTE THEN Fail(i)
  ELSE MemberKey(s, acc, ParseStringBody(s, i + 1, <<>>))

\* The value must span the whole text but for whitespace.
WholeText(s, r) ==
  IF r.ok /\ SkipWs(s, r.i) = Len(s) + 1
    THEN [ok |-> TRUE, v |-> r.v]
    ELSE [ok |-> FALSE, v |-> Null]

\* JSON.parse(s): [ok, v]; ok = FALSE stands for the SyntaxError it throws.
JSONparse(s) == WholeText(s, ParseValue(s, SkipWs(s, 1)))

(***************************************************************************)
(* String helpers of the JS runtime                                        *)
(***************************************************************************)
\* The first index >= i whose character is outside TrimWs (Len(s)+1 if none).
RECURSIVE TrimStart(_, _)
TrimStart(s, i) == IF i <= Len(s) /\ s[i] \in TrimWs THEN TrimStart(s, i + 1) ELSE i

\* The last index <= j whose character is outside TrimWs (0 if none).
RECURSIVE TrimEnd(_, _)
TrimEnd(s, j) == IF j >= 1 /\ s[j] \in TrimWs THEN TrimEnd(s, j - 1) ELSE j

\* s.trim()
Trim(s) == SubSeq(s, TrimStart(s, 1), TrimEnd(s, Len(s)))

\* s.includes(c), s.startsWith(c), s.endsWith(c) for one character c.
Includes(s, c) == \E i \in 1..Len(s) : s[i] = c
StartsWith(s, c) == Len(s) >= 1 /\ s[1] = c
EndsWith(s, c) == Len(s) >= 1 /\ s[Len(s)] = c

\* s.split("\n"): the lines of s, at least one.
RECURSIVE SplitFrom(_, _, _)
SplitFrom(s, i, cur) ==
  IF i > Len(s) THEN <<cur>>
  ELSE IF s[i] = NL THEN <<cur>> \o SplitFrom(s, i + 1, <<>>)
  ELSE SplitFrom(s, i + 1, Append(cur, s[i]))

Split(s) == SplitFrom(s, 1, <<>>)

\* The decimal digits of n >= 0 (string interpolation of a number).
RECURSIVE NumToChars(_)
NumToChars(n) ==
  LET d == <<"0", "1", "2", "3", "4", "5", "6", "7", "8", "9">>[(n % 10) + 1] IN
  IF n < 10 THEN <<d>> ELSE Append(NumToChars(n \div 10), d)

(***************************************************************************)
(* The input of a call: the characters the model spells out, followed by   *)
(* pad more space characters (only the length check, trim and JSON.parse   *)
(* read an oversized text, and none of them tells spaces apart).           *)
(***************************************************************************)
\* text.length
Length(s, pad) == Len(s) + pad

\* !text.trim()
IsBlank(s) == Trim(s) = <<>>

\* The limit of extractJson and findJsonFragments.
MAX_SIZE == 10000000

\* text.length > 10000000
ExceedsLimit(s, pad) == Length(s, pad) > MAX_SIZE

SizeError == "Input exceeds maximum allowed size"

(***************************************************************************)
(* extractJson: the two patterns                                           *)
(*   /\{(?:[^{}]|(?:\{(?:[^{}]|(?:\{[^{}]*\}))*\}))*\}/g                   *)
(*   /\[(?:[^[\]]|(?:\[(?:[^[\]]|(?:\[[^[\]]*\]))*\]))*\]/g                *)
(* Each pattern spells three levels of delimiters.  At a level, a          *)
(* character other than the two delimiters is consumed as it is, an        *)
(* opener must start the next level's group and a closer must end the      *)
(* level, so a match that starts at an opener is decided by a walk that    *)
(* counts depth: it ends at the closer that brings the depth back to 0 and *)
(* there is none if the depth would pass three or the text ends first.     *)
(***************************************************************************)
\* Levels of nesting each pattern spells out.
PatternDepth == 3

\* The patterns, in the order of jsonPatterns: [opener, closer].
jsonPatterns == << <<"{", "}">>, <<"[", "]">> >>

\* The index of the last character of the match that starts at s[i] (depth
\* levels are open at j), or 0 when the pattern does not match at i.
RECURSIVE MatchWalk(_, _, _, _)
MatchWalk(s, j, depth, pat) ==
  IF j > Len(s) THEN 0
  ELSE IF s[j] = pat[1] THEN
    IF depth + 1 > PatternDepth THEN 0 ELSE MatchWalk(s, j + 1, depth + 1, pat)
  ELSE IF s[j] = pat[2] THEN
    IF depth = 1 THEN j ELSE MatchWalk(s, j + 1, depth - 1, pat)
  ELSE MatchWalk(s, j + 1, depth, pat)

MatchEnd(s, i, pat) == IF At(s, i) = pat[1] THEN MatchWalk(s, i + 1, 1, pat) ELSE 0

\* text.match(pattern) with the g flag: the leftmost non-overlapping matches,
\* each as [from, to].
RECURSIVE MatchAllFrom(_, _, _)
MatchAllFrom(s, i, pat) ==
  IF i > Len(s) THEN <<>>
  ELSE LET e == MatchEnd(s, i, pat) IN
       IF e = 0 THEN MatchAllFrom(s, i + 1, pat)
       ELSE <<[from |-> i, to |-> e]>> \o MatchAllFrom(s, e + 1, pat)

MatchAll(s, pat) == MatchAllFrom(s, 1, pat)

\* The candidates in the order the two loops visit them: every match of the
\* object pattern, then every match of the array pattern.
Candidates(s) == MatchAll(s, jsonPatterns[1]) \o MatchAll(s, jsonPatterns[2])

\* if (match.length <= largestMatch.length) continue
SkipCandidate(matchLen, largestLen) == matchLen <= largestLen

\* try { ... JSON.parse(s) ... } catch (e) { }: the catch clause takes the
\* SyntaxError of a failed parse (p), so none is thrown on to the caller.
Uncaught(p) == [ok |-> p.ok, v |-> p.v, thrown |-> ~p.ok]

Caught(p) == [ok |-> p.ok, v |-> p.v, thrown |-> FALSE]

TryParse(s) == Caught(JSONparse(s))

\* largestMatch and largestParsed, as [len, from, parsed].
NoMatch == [len |-> 0, from |-> 0, parsed |-> Null]

\* parsed = JSON.parse(match); largestMatch = match; largestParsed = parsed
Larger(best, len, from, p) ==
  IF p.ok THEN [len |-> len, from |-> from, parsed |-> p.v] ELSE best

\* The loop over the candidates from the k-th on; n counts the JSON.parse calls.
RECURSIVE LargestFrom(_, _, _, _, _)

\* The k-th candidate went through JSON.parse with outcome p.
CandidateParsed(s, cands, k, best, n, p) ==
  IF p.thrown THEN [best |-> best, parses |-> n, thrown |-> TRUE]
  ELSE LargestFrom(s, cands, k + 1,
                   Larger(best, cands[k].to - cands[k].from + 1, cands[k].from, p), n)

LargestFrom(s, cands, k, best, n) ==
  IF k > Len(cands) THEN [best |-> best, parses |-> n, thrown |-> FALSE]
  ELSE IF SkipCandidate(cands[k].to - cands[k].from + 1, best.len)
    THEN LargestFrom(s, cands, k + 1, best, n)
  ELSE CandidateParsed(s, cands, k, best, n + 1,
                       TryParse(SubSeq(s, cands[k].from, cands[k].to)))

\* What extractJson hands back: threw is "" or the message of the Error.
Extracted(threw, v, n, from, len) ==
  [threw |-> threw, result |-> v, parses |-> n, from |-> from, len |-> len]

\* return largestParsed
ReturnLargest(r) ==
  Extracted(IF r.thrown THEN "SyntaxError" ELSE "", r.best.parsed, r.parses,
            r.best.from, r.best.len)

\* Lines 15-56: the whole text, else the largest candidate that parses.
ExtractFrom(s, whole) ==
  IF whole.thrown THEN Extracted("SyntaxError", Null, 1, 0, 0)
  ELSE IF whole.ok THEN Extracted("", whole.v, 1, 0, 0)
  ELSE ReturnLargest(LargestFrom(s, Candidates(s), 1, NoMatch, 1))

\* extractJson(text): from and len locate the match whose parse is returned
\* (0 when the result is not a match's).
extractJson(s, pad) ==
  IF IsBlank(s) THEN Extracted("", Null, 0, 0, 0)
  ELSE IF ExceedsLimit(s, pad) THEN Extracted(SizeError, Null, 0, 0, 0)
  ELSE ExtractFrom(s, TryParse(s))

(***************************************************************************)
(* findJsonFragments                                                       *)
(***************************************************************************)
\* A warning: the message and, for the messages that end "at line N", N.
Warn(msg, line) == [msg |-> msg, line |-> line]

\* `Invalid JSON: ${error.message}` (the engine's message is not modelled).
InvalidJson == Warn("Invalid JSON", 0)
Undetermined == Warn("Could not determine JSON structure", 0)
ReconstructionFailed == Warn("Reconstruction failed, using largest valid fragment", 0)
CouldNotRecover == Warn("Could not recover any valid JSON", 0)

\* trimmed.startsWith(open) && trimmed.endsWith(close)
HasShape(s, open, close) ==
  LET trimmed == Trim(s) IN StartsWith(trimmed, open) /\ EndsWith(trimmed, close)

\* bracketStack.pop(): the stack without its last element (an empty stack
\* stays empty and yields undefined, here "").
Top(stack) == IF stack = <<>> THEN "" ELSE stack[Len(stack)]
Pop(stack) == IF stack = <<>> THEN <<>> ELSE SubSeq(stack, 1, Len(stack) - 1)

\* The loop over the characters of a line, from the i-th on.
RECURSIVE ScanChars(_, _, _, _, _)
ScanChars(line, i, inStr, stack, n) ==
  IF i > Len(line)
    THEN [inString |-> inStr, stack |-> stack, corrupt |-> FALSE, warns |-> <<>>]
  ELSE
    LET char == line[i]
        prevChar == IF i > 1 THEN line[i - 1] ELSE ""
        inStr1 == IF char = QUOTE /\ prevChar # BACKSLASH THEN ~inStr ELSE inStr
        opens == ~inStr1 /\ char \in {"{", "["}
        closes == ~inStr1 /\ char \in {"}", "]"}
        lastBracket == Top(stack)
        stack1 == IF opens THEN Append(stack, char)
                  ELSE IF closes THEN Pop(stack) ELSE stack
        mismatch == closes /\ ( \/ (char = "}" /\ lastBracket # "{")
                                \/ (char = "]" /\ lastBracket # "[") )
    IN IF mismatch
         THEN [inString |-> inStr1, stack |-> stack1, corrupt |-> TRUE,
               warns |-> <<Warn("Mismatched brackets at line", n)>>]
       ELSE IF inStr1 /\ char \in ControlChars /\ char # TAB
         THEN [inString |-> inStr1, stack |-> stack1, corrupt |-> TRUE,
               warns |-> <<Warn("Invalid control character at line", n)>>]
       ELSE ScanChars(line, i + 1, inStr1, stack1, n)

\* `{${currentLine}${currentLine ? "," : ""}${line}}` or the same in [ ].
TestJson(isObj, cur, line) ==
  (IF isObj THEN <<"{">> ELSE <<"[">>)
    \o cur \o (IF cur # <<>> THEN <<",">> ELSE <<>>) \o line
    \o (IF isObj THEN <<"}">> ELSE <<"]">>)

\* line.includes(":") && (line.includes("{") || ... || line.includes("]"))
LooksCorrupt(line) ==
  /\ Includes(line, ":")
  /\ Includes(line, "{") \/ Includes(line, "}") \/ Includes(line, "[") \/ Includes(line, "]")

\* The rest of an iteration of the first pass once the characters are
\* scanned (scan) and the line is parsed in its context (p): lines 144-173.
Classified(line, n, cur, scan, p) ==
  [inString |-> FALSE,
   stack |-> scan.stack,
   currentLine |-> IF p.ok THEN cur \o (IF cur # <<>> THEN <<",">> ELSE <<>>) \o line
                   ELSE cur,
   corrupt |-> scan.corrupt \/ scan.inString \/ (~p.ok /\ LooksCorrupt(line)),
   warns |-> scan.warns
             \o (IF scan.inString THEN <<Warn("Unclosed string at line", n)>> ELSE <<>>)
             \o (IF ~p.ok /\ LooksCorrupt(line)
                   THEN <<Warn("Potentially corrupt JSON at line", n)>> ELSE <<>>),
   thrown |-> p.thrown]

\* One iteration of the first pass, on line number n.
ClassifyLine(line, n, inStr, stack, cur, isObj) ==
  Classified(line, n, cur, ScanChars(line, 1, inStr, stack, n),
             TryParse(TestJson(isObj, cur, line)))

\* The placeholder of a corrupt line.
Placeholder(isObj, n) ==
  IF isObj
    THEN <<QUOTE, "_", "_", "c", "o", "r", "r", "u", "p", "t", "_", "l", "i", "n", "e", "_">>
           \o NumToChars(n) \o <<QUOTE, ":", " ", "n", "u", "l", "l">>
    ELSE <<"n", "u", "l", "l">>

\* What the second pass appends for line number n of count lines.
Emit(line, n, count, isCorrupt, isObj) ==
  LET isFirstLine == n = 1 IN
  IF isCorrupt
    THEN <<" ", " ">> \o Placeholder(isObj, n)
           \o (IF isFirstLine THEN <<>> ELSE <<",">>) \o <<NL>>
    ELSE <<" ", " ">> \o Trim(line)
           \o (IF isFirstLine \/ n = count THEN <<>> ELSE <<",">>) \o <<NL>>

\* The second pass from line n on.
RECURSIVE EmitFrom(_, _, _, _)
EmitFrom(ls, n, corrupt, isObj) ==
  IF n > Len(ls) THEN <<>>
  ELSE Emit(ls[n], n, Len(ls), n \in corrupt, isObj) \o EmitFrom(ls, n + 1, corrupt, isObj)

\* The reconstructed text.
Reconstruct(ls, corrupt, isObj, isArr) ==
  (IF isObj THEN <<"{", NL>> ELSE IF isArr THEN <<"[", NL>> ELSE <<>>)
    \o EmitFrom(ls, 1, corrupt, isObj)
    \o (IF isObj THEN <<"}">> ELSE IF isArr THEN <<"]">> ELSE <<>>)

(***************************************************************************)
(* safeStringify                                                           *)
(*                                                                         *)
(* The argument is an object graph: heap[id] is the object or array with   *)
(* identity id, [kind, items], each item [key, ref]; a ref is a composite  *)
(* node (by identity) or a primitive value.                                *)
(***************************************************************************)
NodeRef(id) == [isNode |-> TRUE, id |-> id, v |-> Null]
PrimRef(v) == [isNode |-> FALSE, id |-> 0, v |-> v]

\* "[Circular Reference]"
Sentinel ==
  <<"[", "C", "i", "r", "c", "u", "l", "a", "r", " ",
    "R", "e", "f", "e", "r", "e", "n", "c", "e", "]">>

\* n copies of the character c.
RECURSIVE Repeat(_, _)
Repeat(c, n) == IF n <= 0 THEN <<>> ELSE <<c>> \o Repeat(c, n - 1)

\* The parts joined by sep.
RECURSIVE Join(_, _)
Join(parts, sep) ==
  IF parts = <<>> THEN <<>>
  ELSE IF Len(parts) = 1 THEN parts[1]
  ELSE parts[1] \o sep \o Join(Tail(parts), sep)

\* QuoteJSONString: the string between quotes, with ", \ and the control
\* characters escaped.
RECURSIVE EscapeFrom(_, _)
EscapeFrom(str, i) ==
  IF i > Len(str) THEN <<>>
  ELSE (CASE str[i] = QUOTE -> <<BACKSLASH, QUOTE>>
          [] str[i] = BACKSLASH -> <<BACKSLASH, BACKSLASH>>
          [] str[i] = NL -> <<BACKSLASH, "n">>
          [] str[i] = TAB -> <<BACKSLASH, "t">>
          [] str[i] = CR -> <<BACKSLASH, "r">>
          [] OTHER -> <<str[i]>>) \o EscapeFrom(str, i + 1)

Quote(str) == <<QUOTE>> \o EscapeFrom(str, 1) \o <<QUOTE>>

\* Number::toString of m * 10^e, for the magnitudes written without an exponent.
NumberDigits10(digits, e) ==
  IF e >= 0 THEN digits \o Repeat("0", e)
  ELSE IF Len(digits) > 0 - e
    THEN SubSeq(digits, 1, Len(digits) + e) \o <<".">>
           \o SubSeq(digits, Len(digits) + e + 1, Len(digits))
  ELSE <<"0", ".">> \o Repeat("0", (0 - e) - Len(digits)) \o digits

NumberText(m, e) ==
  IF m < 0 THEN <<"-">> \o NumberDigits10(NumToChars(0 - m), e)
  ELSE NumberDigits10(NumToChars(m), e)

\* The text of a primitive value.
PrimText(v) ==
  CASE v.t = "null" -> <<"n", "u", "l", "l">>
    [] v.t = "bool" -> IF v.b THEN <<"t", "r", "u", "e">> ELSE <<"f", "a", "l", "s", "e">>
    [] v.t = "num" -> NumberText(v.m, v.e)
    [] v.t = "str" -> Quote(v.s)

ReplacerForgets(ref, seen) ==
  [ref |-> ref, seen |-> IF ref.isNode THEN seen \cup {ref.id} ELSE seen, again |-> FALSE]

\* The replacer of safeStringify: [ref, seen, again] is the value it returns
\* for ref, the seen set after the call, and whether ref was seen before.
Replacer(ref, seen) ==
  IF ref.isNode
    THEN IF ref.id \in seen
           THEN [ref |-> PrimRef(Str(Sentinel)), seen |-> seen, again |-> TRUE]
           ELSE [ref |-> ref, seen |-> seen \cup {ref.id}, again |-> FALSE]
    ELSE [ref |-> ref, seen |-> seen, again |-> FALSE]

\* A serialization: the text, the seen set after it, the composite nodes
\* descended into and the nodes answered by the sentinel, in order, and
\* whether JSON.stringify threw (its own check for a cycle on the stack).
Serialized(txt, seen, visits, sentinels, thrown) ==
  [text |-> txt, seen |-> seen, visits |-> visits, sentinels |-> sentinels,
   thrown |-> thrown]

\* SerializeJSONObject / SerializeJSONArray: the members inside the brackets.
\* indent is the indentation of the members, gap the indentation unit.
Wrap(kind, members, indent, gap) ==
  LET open == IF kind = "obj" THEN <<"{">> ELSE <<"[">>
      close == IF kind = "obj" THEN <<"}">> ELSE <<"]">>
      stepback == SubSeq(indent, 1, Len(indent) - Len(gap))
  IN IF members = <<>> THEN open \o close
     ELSE IF gap = <<>> THEN open \o Join(members, <<",">>) \o close
     ELSE open \o <<NL>> \o indent \o Join(members, <<",", NL>> \o indent)
            \o <<NL>> \o stepback \o close

\* A member of an object (`"key": text`) or an element of an array.
Member(kind, key, txt, gap) ==
  IF kind = "obj"
    THEN Quote(key) \o <<":">> \o (IF gap = <<>> THEN <<>> ELSE <<" ">>) \o txt
    ELSE txt

RECURSIVE SerializeProperty(_, _, _, _, _, _)
RECURSIVE SerializeItems(_, _, _, _, _, _, _, _)

\* The items of node id from the k-th on; acc holds the members so far and
\* r the serialization state so far.
ItemSerialized(heap, id, k, stack, indent, gap, acc, prev, r) ==
  IF r.thrown THEN r
  ELSE SerializeItems(heap, id, k + 1, stack, indent, gap,
         Append(acc, Member(heap[id].kind, heap[id].items[k].key, r.text, gap)),
         Serialized(<<>>, r.seen, prev.visits \o r.visits,
                    prev.sentinels \o r.sentinels, FALSE))

SerializeItems(heap, id, k, stack, indent, gap, acc, prev) ==
  IF k > Len(heap[id].items)
    THEN Serialized(Wrap(heap[id].kind, acc, indent, gap), prev.seen, prev.visits,
                    prev.sentinels, FALSE)
    ELSE ItemSerialized(heap, id, k, stack, indent, gap, acc, prev,
           SerializeProperty(heap, heap[id].items[k].ref, prev.seen, stack, indent, gap))

\* The value the replacer returned (r) is serialized.
SerializeReplaced(heap, ref, r, stack, indent, gap) ==
  IF ~r.ref.isNode
    THEN Serialized(PrimText(r.ref.v), r.seen, <<>>,
                    IF r.again THEN <<ref.id>> ELSE <<>>, FALSE)
  ELSE IF r.ref.id \in stack
    THEN Serialized(<<>>, r.seen, <<>>, <<>>, TRUE)
  ELSE SerializeItems(heap, r.ref.id, 1, stack \cup {r.ref.id}, indent \o gap, gap,
                      <<>>, Serialized(<<>>, r.seen, <<r.ref.id>>, <<>>, FALSE))

\* SerializeJSONProperty: the replacer is called on the value, then the
\* value it returned is serialized.
SerializeProperty(heap, ref, seen, stack, indent, gap) ==
  SerializeReplaced(heap, ref, Replacer(ref, seen), stack, indent, gap)

\* safeStringify(obj, indent): seen starts empty in every call.
safeStringify(heap, ref, indent) ==
  SerializeProperty(heap, ref, {}, {}, <<>>, Repeat(" ", indent))

\* The JsonValue an acyclic graph stands for.
RECURSIVE ValueOf(_, _)
RECURSIVE ItemsValue(_, _, _, _)
ItemsValue(heap, id, k, acc) ==
  IF k > Len(heap[id].items) THEN acc
  ELSE ItemsValue(heap, id, k + 1,
         IF heap[id].kind = "obj"
           THEN ObjSet(acc, heap[id].items[k].key, ValueOf(heap, heap[id].items[k].ref))
           ELSE Append(acc, ValueOf(heap, heap[id].items[k].ref)))

ValueOf(heap, ref) ==
  IF ~ref.isNode THEN ref.v
  ELSE IF heap[ref.id].kind = "obj" THEN Obj(ItemsValue(heap, ref.id, 1, EmptyObj.o))
  ELSE Arr(ItemsValue(heap, ref.id, 1, <<>>))

\* The nodes a node refers to, and whether the graph below ref has a cycle.
Children(heap, id) ==
  {heap[id].items[k].ref.id : k \in {j \in DOMAIN heap[id].items : heap[id].items[j].ref.isNode}}

RECURSIVE CycleBelow(_, _, _)
CycleBelow(heap, id, path) ==
  \/ id \in path
  \/ \E c \in Children(heap, id) : CycleBelow(heap, c, path \cup {id})

Acyclic(heap, ref) == ref.isNode => ~CycleBelow(heap, ref.id, {})

(***************************************************************************)
(* Inputs                                                                  *)
(***************************************************************************)
\* Free texts: every concatenation of up to MaxParts of these pieces.
Parts ==
  { <<"{">>, <<"}">>, <<"[">>, <<"]">>, <<",">>, <<"x">>, <<NL>>,
    <<QUOTE, "a", QUOTE, ":", "1">> }

MaxParts == 4

RECURSIVE Concats(_)
Concats(n) ==
  IF n = 0 THEN {<<>>}
  ELSE {t \o q : t \in Concats(n - 1), q \in Parts \cup {<<>>}}

PartTexts == Concats(MaxParts)

\* Nested values: an object or an array of nesting depth d >= 1.
RECURSIVE NestObject(_)
NestObject(d) ==
  IF d = 1 THEN <<"{", QUOTE, "k", QUOTE, ":", "1", "}">>
  ELSE <<"{", QUOTE, "k", QUOTE, ":">> \o NestObject(d - 1) \o <<"}">>

RECURSIVE NestArray(_)
NestArray(d) ==
  IF d = 1 THEN <<"[", "1", "]">>
  ELSE <<"[", "1", ",">> \o NestArray(d - 1) \o <<"]">>

MaxDepth == 4

\* {"a":1,"b":[1,2,3]}
Scenario1 ==
  <<"{", QUOTE, "a", QUOTE, ":", "1", ",", QUOTE, "b", QUOTE, ":",
    "[", "1", ",", "2", ",", "3", "]", "}">>

\* {"x": 5}
Scenario2 == <<"{", QUOTE, "x", QUOTE, ":", " ", "5", "}">>

\* {"a":"}"}
BraceInString == <<"{", QUOTE, "a", QUOTE, ":", QUOTE, "}", QUOTE, "}">>

\* {"a":"\"{"}
EscapedQuote ==
  <<"{", QUOTE, "a", QUOTE, ":", QUOTE, BACKSLASH, QUOTE, "{", QUOTE, "}">>

\* ["]"]
BracketInString == <<"[", QUOTE, "]", QUOTE, "]">>

\* Valid JSON documents to embed.
Documents ==
  {Scenario1, Scenario2, BraceInString, EscapedQuote, BracketInString}
    \cup {NestObject(d) : d \in 1..MaxDepth}
    \cup {NestArray(d) : d \in 1..MaxDepth}

\* Prose before and after an embedded document ("Here is data: ", " end.").
ProseBefore == {<<>>, <<"d", "a", "t", "a", ":", " ">>, <<"n", "o", "t", " ">>}
ProseAfter == {<<>>, <<" ", "e", "n", "d", ".">>}

EmbeddedTexts == {b \o d \o a : b \in ProseBefore, d \in Documents, a \in ProseAfter}

\* not json at all
Scenario5 ==
  <<"n", "o", "t", " ", "j", "s", "o", "n", " ", "a", "t", " ", "a", "l", "l">>

\* Multi-line documents: up to MaxLines of these lines, joined by line breaks.
Lines ==
  { <<"{", QUOTE, "a", QUOTE, ":", " ", "1", ",">>,                    \* {"a": 1,
    <<"B", "R", "O", "K", "E", "N", " ", "L", "I", "N", "E", " ", "}">>, \* BROKEN LINE }
    <<QUOTE, "b", QUOTE, ":", " ", "2", "}">>,                         \* "b": 2}
    <<QUOTE, "b", QUOTE, ":", " ", "2">>,                              \* "b": 2
    <<QUOTE, "c", QUOTE, ":", " ", QUOTE, "x", ",">>,                  \* "c": "x,
    <<"{">>, <<"}">>, <<"[", "1", ",">>, <<"2", "]", "]">>, <<>> }

MaxLines == 3

RECURSIVE LineTexts(_)
LineTexts(n) ==
  IF n = 1 THEN Lines
  ELSE LineTexts(n - 1) \cup {t \o <<NL>> \o l : t \in LineTexts(n - 1), l \in Lines}

\* The three lines of scenario 3.
Scenario3 ==
  <<"{", QUOTE, "a", QUOTE, ":", " ", "1", ",", NL,
    "B", "R", "O", "K", "E", "N", " ", "L", "I", "N", "E", " ", "}", NL,
    QUOTE, "b", QUOTE, ":", " ", "2", "}">>

Inputs == PartTexts \cup EmbeddedTexts \cup LineTexts(MaxLines) \cup {Scenario5}

\* The space characters that follow the spelled-out text: none, or enough to
\* pass the limit whatever the text.
Pads == {0, MAX_SIZE + 1}

\* The functions called on a text.
Ops == {"findJsonFragments", "extractJson", "processJson"}

\* Object graphs of up to MaxNodes composite nodes, the root being node 1,
\* and primitive values.
MaxNodes == 2

ItemCounts == {0, 1, 2}

KeyOf(k) == <<<<"a">>, <<"b">>, <<"c">>, <<"d">>>>[k]

ItemRefs(n) ==
  {PrimRef(Num(1, 0)), PrimRef(Str(<<QUOTE, "s">>))} \cup {NodeRef(i) : i \in 1..n}

ItemSeqs(n) ==
  UNION {{[k \in 1..c |-> [key |-> KeyOf(k), ref |-> f[k]]] : f \in [1..c -> ItemRefs(n)]}
           : c \in ItemCounts}

NodeSpecs(n) == {[kind |-> kd, items |-> its] : kd \in {"obj", "arr"}, its \in ItemSeqs(n)}

Heaps(n) == UNION {[1..m -> NodeSpecs(m)] : m \in 1..n}

PrimValues ==
  {Null, Bool(TRUE), Bool(FALSE), Num(0, 0), Num(0 - 15, 0 - 1), Num(2, 1),
   Str(<<>>), Str(Sentinel), Str(<<"a", BACKSLASH, NL, QUOTE>>)}

Graphs ==
  {[heap |-> h, root |-> NodeRef(1)] : h \in Heaps(MaxNodes)}
    \cup {[heap |-> <<>>, root |-> PrimRef(v)] : v \in PrimValues}

\* The indent argument: none, or the default.
Indents == {0, 2}

NotSerialized == Serialized(<<>>, {}, <<>>, <<>>, FALSE)
NoGraph == [heap |-> <<>>, root |-> PrimRef(Null)]

(***************************************************************************)
(* State                                                                   *)
(***************************************************************************)
VARIABLES
  op,          \* the function the caller invoked
  text, pad,   \* its argument: text followed by pad spaces
  pc,          \* where the call stands
  threw,       \* "" or the message of the Error thrown to the caller
  result,      \* the result returned (findJsonFragments: .result)
  warnings,    \* findJsonFragments: the warnings array
  parses,      \* the JSON.parse calls made so far
  stages,      \* the parts of findJsonFragments entered so far
  shape,       \* "object", "array" or "" (isObject, isArray)
  lines, lineNumber, inString, bracketStack, currentLine, corruptLineNumbers,
  reconstructed,
  matched,     \* extractJson: [from, len] of the match returned
  error, shownWarnings, recoveredJson,   \* the viewer's state
  graph, indent,   \* safeStringify: its arguments
  serialized       \* safeStringify: what the call produced

vars == <<op, text, pad, pc, threw, result, warnings, parses, stages, shape,
          lines, lineNumber, inString, bracketStack, currentLine,
          corruptLineNumbers, reconstructed, matched,
          error, shownWarnings, recoveredJson, graph, indent, serialized>>

fjfLocals == <<shape, lines, lineNumber, inString, bracketStack, currentLine,
               corruptLineNumbers, reconstructed>>
viewer == <<error, shownWarnings, recoveredJson>>
input == <<op, text, pad, graph, indent>>

Init ==
  /\ \/ /\ op \in Ops
        /\ text \in Inputs
        /\ pad \in Pads
        /\ graph = NoGraph
        /\ indent = 0
     \/ /\ op = "safeStringify"
        /\ text = <<>>
        /\ pad = 0
        /\ graph \in Graphs
        /\ indent \in Indents
  /\ serialized = NotSerialized
  /\ pc = "call"
  /\ threw = ""
  /\ result = Null
  /\ warnings = <<>>
  /\ parses = 0
  /\ stages = <<>>
  /\ shape = ""
  /\ lines = <<>>
  /\ lineNumber = 0
  /\ inString = FALSE
  /\ bracketStack = <<>>
  /\ currentLine = <<>>
  /\ corruptLineNumbers = <<>>
  /\ reconstructed = <<>>
  /\ matched = [from |-> 0, len |-> 0]
  /\ error = ""
  /\ shownWarnings = <<>>
  /\ recoveredJson = Null

\* Where control goes when findJsonFragments returns or throws.
AfterFjf == IF op = "processJson" THEN "pj_finish" ELSE "done"

(***************************************************************************)
(* extractJson, called by the caller                                       *)
(***************************************************************************)
\* What extractJson returned or threw (r) reaches the caller, after n other
\* JSON.parse calls, with the warnings w.
ExtractDone(r, n, w) ==
  /\ threw' = r.threw
  /\ result' = r.result
  /\ parses' = parses + n + r.parses
  /\ matched' = [from |-> r.from, len |-> r.len]
  /\ warnings' = w

CallExtractJson ==
  /\ pc = "call" /\ op = "extractJson"
  /\ ExtractDone(extractJson(text, pad), 0, warnings)
  /\ pc' = "done"
  /\ UNCHANGED <<input, serialized, stages, fjfLocals, viewer>>

(***************************************************************************)
(* findJsonFragments, step by step                                         *)
(***************************************************************************)
CallFindJsonFragments ==
  /\ pc = "call" /\ op = "findJsonFragments"
  /\ pc' = "fjf_guard"
  /\ UNCHANGED <<input, serialized, threw, result, warnings, parses, stages, fjfLocals,
                 matched, viewer>>

\* Lines 65-70: the blank check and the size limit.
FjfGuard ==
  /\ pc = "fjf_guard"
  /\ stages' = Append(stages, "guard")
  /\ IF IsBlank(text)
       THEN /\ pc' = AfterFjf /\ result' = Null /\ warnings' = <<>> /\ threw' = ""
       ELSE IF ExceedsLimit(text, pad)
         THEN /\ pc' = AfterFjf /\ threw' = SizeError /\ UNCHANGED <<result, warnings>>
         ELSE /\ pc' = "fjf_strict" /\ UNCHANGED <<threw, result, warnings>>
  /\ UNCHANGED <<input, serialized, parses, fjfLocals, matched, viewer>>

StrictParsedFallsThrough(p) ==
  /\ pc' = "fjf_structure"
  /\ warnings' = IF p.ok THEN warnings ELSE Append(warnings, InvalidJson)
  /\ result' = IF p.ok THEN p.v ELSE result
  /\ UNCHANGED threw

\* Lines 74-82, given the outcome p of JSON.parse(text).
StrictParsed(p) ==
  IF p.thrown
    THEN /\ pc' = AfterFjf /\ threw' = "SyntaxError" /\ UNCHANGED <<result, warnings>>
  ELSE IF p.ok
    THEN /\ pc' = AfterFjf /\ result' = p.v /\ warnings' = <<>> /\ UNCHANGED threw
    ELSE /\ pc' = "fjf_structure" /\ warnings' = Append(warnings, InvalidJson)
         /\ UNCHANGED <<threw, result>>

\* Lines 72-82: the whole text through JSON.parse.
FjfStrict ==
  /\ pc = "fjf_strict"
  /\ stages' = Append(stages, "strict")
  /\ parses' = parses + 1
  /\ StrictParsed(TryParse(text))
  /\ UNCHANGED <<input, serialized, fjfLocals, matched, viewer>>

\* The warnings returned when the text has neither shape (line 94).
UndeterminedWarnings(w) == w \o <<Undetermined>>

\* Lines 84-104: the shape of the text; without one, extractJson decides.
FjfStructure ==
  /\ pc = "fjf_structure"
  /\ stages' = Append(stages, "structure")
  /\ IF ~HasShape(text, "{", "}") /\ ~HasShape(text, "[", "]")
       THEN /\ ExtractDone(extractJson(text, pad), 0, UndeterminedWarnings(warnings))
            /\ pc' = AfterFjf
            /\ UNCHANGED fjfLocals
       ELSE /\ pc' = "fjf_classify"
            /\ shape' = IF HasShape(text, "{", "}") THEN "object" ELSE "array"
            /\ lines' = Split(text)
            /\ lineNumber' = 0
            /\ inString' = FALSE
            /\ bracketStack' = <<>>
            /\ currentLine' = <<>>
            /\ corruptLineNumbers' = <<>>
            /\ UNCHANGED <<threw, result, warnings, parses, matched, reconstructed>>
  /\ UNCHANGED <<input, serialized, viewer>>

\* The state after the iteration of the first pass on line n, given what the
\* iteration computed (c).
LineClassified(n, c) ==
  /\ lineNumber' = n
  /\ inString' = c.inString
  /\ bracketStack' = c.stack
  /\ currentLine' = c.currentLine
  /\ warnings' = warnings \o c.warns
  /\ corruptLineNumbers' = IF c.corrupt THEN Append(corruptLineNumbers, n)
                           ELSE corruptLineNumbers
  /\ IF c.thrown
       THEN pc' = AfterFjf /\ threw' = "SyntaxError"
       ELSE pc' = "fjf_classify" /\ threw' = threw

\* Lines 106-174: one iteration of the first pass.
FjfClassifyLine ==
  /\ pc = "fjf_classify"
  /\ lineNumber < Len(lines)
  /\ LineClassified(lineNumber + 1,
                    ClassifyLine(lines[lineNumber + 1], lineNumber + 1, inString,
                                 bracketStack, currentLine, shape = "object"))
  /\ parses' = parses + 1
  /\ stages' = IF lineNumber = 0 THEN Append(stages, "classify") ELSE stages
  /\ UNCHANGED <<input, serialized, result, shape, lines, reconstructed, matched, viewer>>

\* corruptLineNumbers.includes(n) for every n at once.
CorruptSet(nums) == {nums[k] : k \in DOMAIN nums}

\* Lines 176-205: the second pass.
FjfReconstruct ==
  /\ pc = "fjf_classify"
  /\ lineNumber = Len(lines)
  /\ reconstructed' = Reconstruct(lines, CorruptSet(corruptLineNumbers),
                                  shape = "object", shape = "array")
  /\ stages' = Append(stages, "reconstruct")
  /\ pc' = "fjf_reparse"
  /\ UNCHANGED <<input, serialized, threw, result, warnings, parses, shape, lines, lineNumber,
                 inString, bracketStack, currentLine, corruptLineNumbers, matched,
                 viewer>>

FallbackWarningsFirst(w, extracted) ==
  IF Truthy(extracted) THEN <<ReconstructionFailed>> \o w
  ELSE <<CouldNotRecover>> \o w

\* Lines 213-219: the warnings after the fallback to extractJson found r.
FallbackWarnings(w, extracted) ==
  IF Truthy(extracted) THEN Append(w, ReconstructionFailed)
  ELSE w \o <<CouldNotRecover>>

\* Lines 211-220: the catch clause, given what extractJson(text) yields.
Fallback(r) == ExtractDone(r, 1, FallbackWarnings(warnings, r.result))

\* Lines 208-220, given the outcome p of JSON.parse(reconstructed).
Reparsed(p) ==
  IF p.thrown
    THEN /\ threw' = "SyntaxError" /\ parses' = parses + 1
         /\ UNCHANGED <<result, warnings, matched, stages>>
  ELSE IF p.ok
    THEN /\ result' = p.v /\ parses' = parses + 1
         /\ UNCHANGED <<threw, warnings, matched, stages>>
    ELSE /\ Fallback(extractJson(text, pad))
         /\ stages' = Append(stages, "extract")

\* Lines 207-220: the reconstruction through JSON.parse, else extractJson.
FjfReparse ==
  /\ pc = "fjf_reparse"
  /\ Reparsed(TryParse(reconstructed))
  /\ pc' = AfterFjf
  /\ UNCHANGED <<input, serialized, fjfLocals, viewer>>

(***************************************************************************)
(* processJson of the viewer                                               *)
(***************************************************************************)
NoValidJson == "No valid JSON found in the input"

\* Lines 35-42: the state is reset; a blank text ends the call.
CallProcessJson ==
  /\ pc = "call" /\ op = "processJson"
  /\ error' = ""
  /\ shownWarnings' = <<>>
  /\ IF IsBlank(text)
       THEN /\ recoveredJson' = Null /\ result' = Null /\ pc' = "done"
       ELSE /\ pc' = "pj_parse" /\ UNCHANGED <<recoveredJson, result>>
  /\ UNCHANGED <<input, serialized, threw, warnings, parses, stages, fjfLocals, matched>>

\* Lines 45-51, given the outcome p of JSON.parse(text).
ViewerParsed(p) ==
  IF p.ok
    THEN /\ recoveredJson' = Null /\ result' = p.v /\ pc' = "done"
    ELSE /\ pc' = "fjf_guard" /\ UNCHANGED <<recoveredJson, result>>

\* Lines 44-54: JSON.parse of the text; on failure findJsonFragments is called.
PjParse ==
  /\ pc = "pj_parse"
  /\ parses' = parses + 1
  /\ ViewerParsed(TryParse(text))
  /\ UNCHANGED <<input, serialized, threw, warnings, stages, fjfLocals, matched, error,
                 shownWarnings>>

\* Lines 56-70: what findJsonFragments returned or threw reaches the state.
PjFinish ==
  /\ pc = "pj_finish"
  /\ pc' = "done"
  /\ IF threw # ""
       THEN /\ error' = threw /\ result' = Null /\ threw' = ""
            /\ UNCHANGED <<shownWarnings, recoveredJson>>
       ELSE /\ shownWarnings' = IF Len(warnings) > 0 THEN warnings ELSE shownWarnings
            /\ IF Truthy(result)
                 THEN /\ recoveredJson' = result /\ UNCHANGED <<error, result>>
                 ELSE /\ error' = NoValidJson /\ result' = Null /\ UNCHANGED recoveredJson
            /\ UNCHANGED threw
  /\ UNCHANGED <<input, serialized, warnings, parses, stages, fjfLocals, matched>>

(***************************************************************************)
(* safeStringify, called by the caller                                     *)
(***************************************************************************)
CallSafeStringify ==
  /\ pc = "call" /\ op = "safeStringify"
  /\ serialized' = safeStringify(graph.heap, graph.root, indent)
  /\ pc' = "done"
  /\ UNCHANGED <<input, threw, result, warnings, parses, stages, fjfLocals, matched,
                 viewer>>

Next ==
  \/ CallSafeStringify
  \/ CallExtractJson
  \/ CallFindJsonFragments
  \/ FjfGuard
  \/ FjfStrict
  \/ FjfStructure
  \/ FjfClassifyLine
  \/ FjfReconstruct
  \/ FjfReparse
  \/ CallProcessJson
  \/ PjParse
  \/ PjFinish

Spec == Init /\ [][Next]_vars

(***************************************************************************)
(* Properties                                                              *)
(***************************************************************************)
Done == pc = "done"
OnText == op \in Ops
Oversized == OnText /\ ExceedsLimit(text, pad)
WithinLimit == OnText /\ ~ExceedsLimit(text, pad)
Valid(s) == JSONparse(s).ok
Last(w) == w[Len(w)]
LineWarnings(w) == {k \in DOMAIN w : w[k].line > 0}

\* C1: a text longer than the limit, blank ones included, makes
\* findJsonFragments and extractJson fail with the size-limit error (through
\* processJson: the error shown is the size-limit error), and JSON.parse is
\* not called on it before that.
C1_OversizeFailsUnparsed ==
  Oversized =>
    /\ parses = 0
    /\ Done => IF op = "processJson" THEN error = SizeError ELSE threw = SizeError

\* C2: for a text within the limit that is valid JSON, findJsonFragments
\* returns the value JSON.parse gives for it and no warnings, and enters no
\* stage after the strict parse.
C2_ValidTextParsedAlone ==
  (op = "findJsonFragments" /\ WithinLimit /\ Valid(text)) =>
    /\ warnings = <<>>
    /\ threw = ""
    /\ \A k \in DOMAIN stages : stages[k] \in {"guard", "strict"}
    /\ Done => /\ result = JSONparse(text).v
               /\ stages = <<"guard", "strict">>
               /\ parses = 1

C2_Witness ==
  /\ Done /\ op = "findJsonFragments" /\ WithinLimit
  /\ Valid(text) /\ result.t = "obj" /\ DOMAIN result.o # {}

\* C3: within the limit, findJsonFragments and extractJson never throw; a
\* text that fails the strict parse ends findJsonFragments with a result and
\* at least one warning, whatever stages it went through.
C3_FailsSoft ==
  (op \in {"findJsonFragments", "extractJson"} /\ WithinLimit) =>
    /\ threw = ""
    /\ (Done /\ op = "findJsonFragments" /\ ~IsBlank(text) /\ ~Valid(text)) =>
         /\ Len(warnings) >= 1
         /\ warnings[1] = InvalidJson

\* Every parse in the call failed: the whole text, the lines in context,
\* the reconstruction and the candidates of the fallback.
C3_Witness ==
  /\ Done /\ op = "findJsonFragments" /\ WithinLimit
  /\ stages = <<"guard", "strict", "structure", "classify", "reconstruct", "extract">>
  /\ Len(lines) >= 2
  /\ currentLine = <<>>
  /\ result = Null
  /\ parses >= 5

\* The candidates of s that pass JSON.parse, by their position in cands.
Candidate(s, c) == SubSeq(s, c.from, c.to)
CandidateLen(c) == c.to - c.from + 1
ValidCandidates(s, cands) == {k \in DOMAIN cands : Valid(Candidate(s, cands[k]))}

\* No valid candidate is longer than the k-th, and none as long starts earlier.
LongestEarliest(cands, valid, k) ==
  \A j \in valid :
    \/ CandidateLen(cands[j]) < CandidateLen(cands[k])
    \/ CandidateLen(cands[j]) = CandidateLen(cands[k]) /\ cands[j].from >= cands[k].from

ReturnsLongestEarliest(s, cands, valid) ==
  IF valid = {} THEN result = Null
  ELSE \E k \in valid :
         /\ LongestEarliest(cands, valid, k)
         /\ matched = [from |-> cands[k].from, len |-> CandidateLen(cands[k])]
         /\ result = JSONparse(Candidate(s, cands[k])).v

\* C4: for a text that is not valid JSON, extractJson returns the parse of
\* the longest candidate (object or array) that passes JSON.parse, and of
\* two valid candidates of that length the one that starts earlier in the text.
C4_LongestThenEarliest ==
  (op = "extractJson" /\ Done /\ WithinLimit /\ ~IsBlank(text) /\ ~Valid(text)) =>
    ReturnsLongestEarliest(text, Candidates(text),
                           ValidCandidates(text, Candidates(text)))

\* The document embedded in s: from the first opening delimiter of s to its
\* last closing delimiter (<<>> when there is none).
Openers == {"{", "["}
Closers == {"}", "]"}
FirstOpener(s) ==
  IF \E i \in DOMAIN s : s[i] \in Openers
    THEN CHOOSE i \in DOMAIN s : s[i] \in Openers /\ \A j \in 1..(i - 1) : s[j] \notin Openers
    ELSE 0
LastCloser(s) ==
  IF \E i \in DOMAIN s : s[i] \in Closers
    THEN CHOOSE i \in DOMAIN s : s[i] \in Closers /\ \A j \in (i + 1)..Len(s) : s[j] \notin Closers
    ELSE 0
Between(s, i, j) == IF i >= 1 /\ i <= j THEN SubSeq(s, i, j) ELSE <<>>
EmbeddedDocument(s) == Between(s, FirstOpener(s), LastCloser(s))

\* A delimiter occurs inside a string literal of the JSON text d, from the
\* i-th character on.
RECURSIVE DelimiterInString(_, _, _)
DelimiterInString(d, i, inStr) ==
  IF i > Len(d) THEN FALSE
  ELSE IF ~inStr THEN DelimiterInString(d, i + 1, d[i] = QUOTE)
  ELSE IF d[i] = BACKSLASH THEN DelimiterInString(d, i + 2, TRUE)
  ELSE IF d[i] = QUOTE THEN DelimiterInString(d, i + 1, FALSE)
  ELSE d[i] \in Openers \cup Closers \/ DelimiterInString(d, i + 1, TRUE)

\* s is prose around one valid object or array, with no delimiter in the prose.
EmbedsDocument(s, d) == d # <<>> /\ d # s /\ Valid(d)

\* C5: delimiters inside a string literal do not end a candidate: a valid
\* object or array with such a string, surrounded by prose, is what
\* extractJson returns.
C5_DelimitersInStringsOpaque ==
  (/\ op = "extractJson" /\ Done /\ WithinLimit
   /\ EmbedsDocument(text, EmbeddedDocument(text))
   /\ DelimiterInString(EmbeddedDocument(text), 1, FALSE)) =>
    result = JSONparse(EmbeddedDocument(text)).v

\* C6: a valid object or array of any nesting depth, surrounded by prose, is
\* what extractJson returns (strings with delimiters apart).
C6_AnyNestingDepth ==
  (/\ op = "extractJson" /\ Done /\ WithinLimit
   /\ EmbedsDocument(text, EmbeddedDocument(text))
   /\ ~DelimiterInString(EmbeddedDocument(text), 1, FALSE)) =>
    result = JSONparse(EmbeddedDocument(text)).v

\* C7: for a text that has neither outer pair and is prose around one valid
\* object, findJsonFragments skips the line passes (no warning names a
\* line), returns that object, and the last of its warnings is that the
\* structure could not be determined.
C7_EmbeddedObjectSkipsLines ==
  (/\ op = "findJsonFragments" /\ Done /\ WithinLimit
   /\ ~HasShape(text, "{", "}") /\ ~HasShape(text, "[", "]")
   /\ EmbedsDocument(text, EmbeddedDocument(text))
   /\ StartsWith(EmbeddedDocument(text), "{")) =>
    /\ LineWarnings(warnings) = {}
    /\ \A k \in DOMAIN stages : stages[k] \notin {"classify", "reconstruct"}
    /\ result = JSONparse(EmbeddedDocument(text)).v
    /\ Len(warnings) >= 1
    /\ Last(warnings) = Undetermined

\* What a line of an object spelled over several lines holds: the line
\* without the outer brace (first and last line) and the comma that ends it.
DropFirst(s, c) == IF StartsWith(s, c) THEN SubSeq(s, 2, Len(s)) ELSE s
DropLast(s, c) == IF EndsWith(s, c) THEN SubSeq(s, 1, Len(s) - 1) ELSE s
LineCore(ls, n) ==
  Trim(DropLast(Trim(DropLast(DropFirst(Trim(ls[n]), IF n = 1 THEN "{" ELSE ""),
                              IF n = Len(ls) THEN "}" ELSE "")), ","))
AsObject(core) == <<"{">> \o core \o <<"}">>
WellFormedCore(core) == core = <<>> \/ Valid(AsObject(core))
CorruptedLines(ls) == {n \in DOMAIN ls : ~WellFormedCore(LineCore(ls, n))}
IntactKeys(ls) ==
  UNION {DOMAIN JSONparse(AsObject(LineCore(ls, n))).v.o :
           n \in {m \in DOMAIN ls : Valid(AsObject(LineCore(ls, m)))}}
PlaceholderKey(n) ==
  <<"_", "_", "c", "o", "r", "r", "u", "p", "t", "_", "l", "i", "n", "e", "_">>
    \o NumToChars(n)

RecoversLines(ls, corrupted) ==
  (Len(ls) >= 2 /\ corrupted # {}) =>
    /\ result.t = "obj"
    /\ Len(warnings) >= Cardinality(corrupted)
    /\ \A n \in corrupted :
         /\ PlaceholderKey(n) \in DOMAIN result.o
         /\ result.o[PlaceholderKey(n)] = Null
    /\ IntactKeys(ls) \subseteq DOMAIN result.o

\* C8: for an object spelled over several lines of which k are corrupted
\* and the others well-formed, findJsonFragments returns an object, at least
\* k warnings, the key __corrupt_line_N with value null for each corrupted
\* line N, and the keys of the other lines.
C8_PlaceholderPerCorruptLine ==
  (/\ op = "findJsonFragments" /\ Done /\ WithinLimit
   /\ HasShape(text, "{", "}") /\ ~Valid(text)) =>
    RecoversLines(Split(text), CorruptedLines(Split(text)))

\* C9: when findJsonFragments recovers no value from a text that is not
\* blank, the last of its warnings is that no valid JSON could be recovered,
\* whether the structure was undetermined or the reconstruction failed.
C9_TerminalWarningLast ==
  (/\ op = "findJsonFragments" /\ Done /\ WithinLimit
   /\ ~IsBlank(text) /\ ~Valid(text) /\ result = Null) =>
    /\ Len(warnings) >= 1
    /\ Last(warnings) = CouldNotRecover

\* C10: for an acyclic graph, also one that reaches the same node twice,
\* JSON.parse of what safeStringify returns equals the value the graph
\* stands for, and the sentinel is written for no node.
C10_RoundTrip ==
  (op = "safeStringify" /\ Done /\ Acyclic(graph.heap, graph.root)) =>
    /\ ~serialized.thrown
    /\ serialized.sentinels = <<>>
    /\ JSONparse(serialized.text).ok
    /\ JSONparse(serialized.text).v = ValueOf(graph.heap, graph.root)

\* The references to composite nodes that the nodes of visits hold.
NodeItems(heap, id) ==
  Cardinality({k \in DOMAIN heap[id].items : heap[id].items[k].ref.isNode})

RECURSIVE NodeItemsOf(_, _, _)
NodeItemsOf(heap, visits, k) ==
  IF k > Len(visits) THEN 0
  ELSE NodeItems(heap, visits[k]) + NodeItemsOf(heap, visits, k + 1)

Distinct(seq) == \A i, j \in DOMAIN seq : seq[i] = seq[j] => i = j
Elements(seq) == {seq[k] : k \in DOMAIN seq}
Occurrences(txt, pat) ==
  Cardinality({i \in 1..(Len(txt) - Len(pat) + 1) : SubSeq(txt, i, i + Len(pat) - 1) = pat})

\* The nodes that can be reached from node id.
RECURSIVE ReachableFrom(_, _, _)
ReachableFrom(heap, todo, found) ==
  IF todo = {} THEN found
  ELSE LET id == CHOOSE n \in todo : TRUE IN
       ReachableFrom(heap, (todo \cup Children(heap, id)) \ (found \cup {id}),
                     found \cup {id})

VisitsOnce(heap, root, s) ==
  /\ ~s.thrown
  /\ Distinct(s.visits)
  /\ s.visits[1] = root.id
  /\ Elements(s.visits) = ReachableFrom(heap, {root.id}, {})
  /\ s.seen = Elements(s.visits)
  /\ Elements(s.sentinels) \subseteq s.seen
  /\ Len(s.visits) + Len(s.sentinels) = 1 + NodeItemsOf(heap, s.visits, 1)
  /\ Occurrences(s.text, Quote(Sentinel)) = Len(s.sentinels)

\* C11: on every graph, cyclic or not, safeStringify returns a text without
\* throwing, having descended into each composite node that can be reached
\* exactly once, with a seen set that holds the nodes of this call alone,
\* and having written the sentinel once for each further reference to a
\* node already in the set.
C11_EachNodeOnce ==
  (op = "safeStringify" /\ Done) =>
    IF graph.root.isNode
      THEN VisitsOnce(graph.heap, graph.root, serialized)
      ELSE /\ ~serialized.thrown /\ serialized.seen = {}
           /\ serialized.visits = <<>> /\ serialized.sentinels = <<>>
           /\ serialized.text = PrimText(graph.root.v)

\* A cycle through both nodes, cut by the sentinel where it closes.
C11_Witness ==
  /\ op = "safeStringify" /\ Done
  /\ ~Acyclic(graph.heap, graph.root)
  /\ Len(serialized.visits) = 2
  /\ Len(serialized.sentinels) >= 1
  /\ serialized.sentinels[1] = 1

\* The entry the second pass emits for line n, and the entries from line n
\* on with one separator after each but the last.
Entry(ls, n, corrupt, isObj) ==
  IF n \in corrupt THEN Placeholder(isObj, n) ELSE Trim(ls[n])

RECURSIVE SeparatedFrom(_, _, _, _)
SeparatedFrom(ls, n, corrupt, isObj) ==
  IF n > Len(ls) THEN <<>>
  ELSE <<" ", " ">> \o Entry(ls, n, corrupt, isObj)
         \o (IF n < Len(ls) THEN <<",">> ELSE <<>>) \o <<NL>>
         \o SeparatedFrom(ls, n + 1, corrupt, isObj)

Separated(ls, corrupt, isObj) ==
  (IF isObj THEN <<"{", NL>> ELSE <<"[", NL>>)
    \o SeparatedFrom(ls, 1, corrupt, isObj)
    \o (IF isObj THEN <<"}">> ELSE <<"]">>)

\* C12: the second pass emits one separator between each two consecutive
\* entries, none before the first entry and none after the entry of the
\* last line, be that entry the line or its placeholder.
C12_OneSeparatorBetweenEntries ==
  "reconstruct" \in Elements(stages) =>
    reconstructed = Separated(lines, CorruptSet(corruptLineNumbers), shape = "object")

\* The warnings that end a call, and the order of the warnings array.
ClosingWarnings == {Undetermined, ReconstructionFailed, CouldNotRecover}
IsPrefix(u, w) == Len(u) <= Len(w) /\ SubSeq(w, 1, Len(u)) = u

WarningsInOrder ==
  /\ warnings # <<>> => warnings[1] = InvalidJson
  /\ \A k \in DOMAIN warnings :
       /\ warnings[k] = InvalidJson => k = 1
       /\ warnings[k] \in ClosingWarnings => k = Len(warnings)
       /\ warnings[k].line > 0 =>
            /\ warnings[k].line \in CorruptSet(corruptLineNumbers)
            /\ warnings[k].line <= lineNumber
  /\ \A i, j \in LineWarnings(warnings) : i < j => warnings[i].line <= warnings[j].line

\* C13: the warnings array only grows during a call and stands in the order
\* of detection: the failed strict parse first, then the warnings that name
\* a line, by line number, each of a line in corruptLineNumbers, and last,
\* if any, the warning of the undetermined structure, of the failed
\* reconstruction or of no recovery.
C13_WarningsAppendOnly ==
  /\ []WarningsInOrder
  /\ [][IsPrefix(warnings, warnings')]_vars

\* Warnings of two different lines between the first and the closing one.
C13_Witness ==
  /\ Done /\ op = "findJsonFragments"
  /\ Len(warnings) >= 4
  /\ warnings[1] = InvalidJson
  /\ warnings[2].line > 0
  /\ warnings[Len(warnings) - 1].line > warnings[2].line
  /\ Last(warnings) \in ClosingWarnings

====
